---------------------------- MODULE Spec2Model ----------------------------
(***************************************************************************)
(* GridLife cellular outbreak simulation: a model of class GridSimulation  *)
(* (grid_simulation.py).  One action per public method; random draws are   *)
(* nondeterministic choices over the outcomes the comparison "draw <       *)
(* threshold" can have for a uniform draw in [0,1).  The attribute         *)
(* first_infection_step is written and never read; it is not modelled.     *)
(***************************************************************************)
EXTENDS Integers, Sequences, FiniteSets, TLC

\* ------------------------------------------------------------------ bounds
\* Largest value the step counter reaches in the model.
MaxSteps == 2

\* Largest value the step counter reaches in the runs that only spread the
\* infection (update_step with death_rate = 0 and immunity_rate = 0).
LongSteps == 12

\* Largest width and height on which the pattern operators are evaluated as
\* functions of the size alone.
MaxSide == 8

\* --------------------------------------------------------------- constants
HEALTHY == 0
INFECTED == 1
IMMUNE == 2
DEAD == 3

\* Python's None for outbreak_contained_step.
None == -1

\* Constructor arguments <<width, height>>: every grid of up to three cells.
Dims == {<<1, 1>>, <<2, 1>>, <<1, 2>>, <<3, 1>>, <<1, 3>>}

\* Rates passed to update_step, as <<numerator, denominator>>: 0, 1/2, 1.
Rates == {<<0, 1>>, <<1, 2>>, <<1, 1>>}

PatternNames ==
    {"patient_zero", "airport_spread", "border_invasion", "urban_centers", "random_chaos"}

\* Names handed to apply_outbreak_pattern, one of them unknown.
PatternInputs == PatternNames \cup {"no_such_pattern"}

AchievementNames ==
    {"Patient Zero", "Rapid Spread", "Pandemic", "Extinction Event", "Survivor",
     "Herd Immunity", "Containment Master", "Endemic State", "Ghost Town"}

VARIABLES
    width, height,            \* fixed at construction
    grid,                     \* [<<y, x>> -> 0..3]
    infection_trails,         \* [<<y, x>> -> 0..1]
    step_count,
    achievements,
    peak_infected, total_ever_infected, total_deaths, total_recoveries,
    infection_history,        \* sequence of per-step records
    outbreak_contained_step,
    pc,                       \* "ready", or "random_chaos" inside that pattern's loop
    infected_positions,       \* local set of _pattern_random_chaos, <<x, y>> pairs
    last_call,                \* the method last called: [op, pattern, exit]
    result,                   \* what that call returned or raised
    snapshot                  \* the array a caller holds from get_grid_copy

vars == <<width, height, grid, infection_trails, step_count, achievements,
          peak_infected, total_ever_infected, total_deaths, total_recoveries,
          infection_history, outbreak_contained_step,
          pc, infected_positions, last_call, result, snapshot>>

\* ----------------------------------------------------------------- helpers
Max(a, b) == IF a >= b THEN a ELSE b
Min(a, b) == IF a <= b THEN a ELSE b

\* Python's floor division by a positive divisor.
FloorDiv(a, b) == IF a >= 0 THEN a \div b ELSE -(((-a) + b - 1) \div b)

\* The cells of a w-by-h array, indexed [y, x] as numpy does.
CellsOf(w, h) == (0..(h - 1)) \X (0..(w - 1))
Cells == CellsOf(width, height)

\* np.zeros((height, width))
Zeros(w, h) == [c \in CellsOf(w, h) |-> 0]

\* np.sum(g == cell_type)
CountOf(g, cell_type) == Cardinality({c \in DOMAIN g : g[c] = cell_type})

\* g[mask] = value, for a boolean mask given as the set of its True cells.
AssignMask(g, mask, value) == [c \in DOMAIN g |-> IF c \in mask THEN value ELSE g[c]]

\* A call of method `op`; `pattern` is apply_outbreak_pattern's argument and
\* `exit` names the return statement the call left by, where a method has
\* several that return the same value.
Call(op, pattern) == [op |-> op, pattern |-> pattern, exit |-> ""]
ReturnedAt(op, exit) == [op |-> op, pattern |-> "", exit |-> exit]

\* The array a caller got from get_grid_copy: its contents, and whether it is
\* the very array self.grid is bound to (numpy arrays are shared by reference).
NoSnapshot == [aliased |-> FALSE, cells |-> <<>>]

\* The caller's array after self.grid was written in place and holds g.
Written(snap, g) == IF snap.aliased THEN [snap EXCEPT !.cells = g] ELSE snap

\* The caller's array after self.grid was bound to a new array.
Rebound(snap) == [snap EXCEPT !.aliased = FALSE]

\* -------------------------------------------------------------- statistics
has_infected_cells(g) == \E c \in DOMAIN g : g[c] = INFECTED

\* _update_infection_stats, as the four values it assigns.
\* (variant: the running maximum is dropped)
StatsPeakNoMax(g, peak) == CountOf(g, INFECTED)
StatsPeak(g, peak) == Max(peak, CountOf(g, INFECTED))
\* (variant: Dead cells are left out of the sum)
StatsEverNoDead(g) == Cardinality({c \in DOMAIN g : g[c] = INFECTED \/ g[c] = IMMUNE})
StatsEver(g) ==
    Cardinality({c \in DOMAIN g : g[c] = INFECTED \/ g[c] = IMMUNE \/ g[c] = DEAD})
\* (variant: the Immune cells are counted as deaths)
StatsDeathsCountsImmune(g) == CountOf(g, IMMUNE)
StatsDeaths(g) == CountOf(g, DEAD)
\* (variant: recoveries are counted from the Dead cells)
StatsRecoveriesCountsDead(g) == CountOf(g, DEAD)
StatsRecoveries(g) == CountOf(g, IMMUNE)

\* --------------------------------------------------------------- reset_grid
\* (variant: reset_grid forgets the history list)
ResetFieldsKeepsHistory(w, h) ==
    /\ grid' = Zeros(w, h)
    /\ step_count' = 0
    /\ achievements' = {}
    /\ infection_trails' = Zeros(w, h)
    /\ peak_infected' = 0
    /\ total_ever_infected' = 0
    /\ total_deaths' = 0
    /\ total_recoveries' = 0
    /\ UNCHANGED infection_history
    /\ outbreak_contained_step' = None
    /\ snapshot' = Rebound(snapshot)

\* The fields reset_grid assigns, for a w-by-h simulation.
ResetFields(w, h) ==
    /\ grid' = Zeros(w, h)
    /\ step_count' = 0
    /\ achievements' = {}
    /\ infection_trails' = Zeros(w, h)
    /\ peak_infected' = 0
    /\ total_ever_infected' = 0
    /\ total_deaths' = 0
    /\ total_recoveries' = 0
    /\ infection_history' = <<>>
    /\ outbreak_contained_step' = None
    /\ snapshot' = Rebound(snapshot)

reset_grid ==
    /\ pc = "ready"
    /\ ResetFields(width, height)
    /\ last_call' = Call("reset_grid", "")
    /\ result' = "None"
    /\ UNCHANGED <<width, height, pc, infected_positions>>

\* ----------------------------------------------------------------- __init__
Init ==
    \E d \in Dims :
        /\ width = d[1]
        /\ height = d[2]
        /\ grid = Zeros(d[1], d[2])
        /\ step_count = 0
        /\ achievements = {}
        /\ infection_trails = Zeros(d[1], d[2])
        /\ peak_infected = 0
        /\ total_ever_infected = 0
        /\ total_deaths = 0
        /\ total_recoveries = 0
        /\ infection_history = <<>>
        /\ outbreak_contained_step = None
        /\ pc = "ready"
        /\ infected_positions = {}
        /\ last_call = Call("__init__", "")
        /\ result = "None"
        /\ snapshot = NoSnapshot

\* ---------------------------------------------------------------- patterns
\* Each pattern is modelled by the set of cells <<y, x>> it sets to INFECTED
\* (and marks in the trail) on the freshly reset grid.
\* (variant: the centre of the last index instead of the size)
pattern_patient_zero_low(w, h) == {<<(h - 1) \div 2, (w - 1) \div 2>>}
pattern_patient_zero(w, h) == {<<h \div 2, w \div 2>>}

\* (variant: the third position is at three quarters of the width)
pattern_airport_spread_corners(w, h) ==
    LET positions == {<<w \div 4, h \div 4>>, <<(3 * w) \div 4, h \div 4>>,
                      <<(3 * w) \div 4, (3 * h) \div 4>>, <<w \div 4, (3 * h) \div 4>>}
    IN  {<<p[2], p[1]>> : p \in {q \in positions :
             0 <= q[1] /\ q[1] < w /\ 0 <= q[2] /\ q[2] < h}}

pattern_airport_spread(w, h) ==
    LET positions == {<<w \div 4, h \div 4>>, <<(3 * w) \div 4, h \div 4>>,
                      <<w \div 2, (3 * h) \div 4>>, <<w \div 4, (3 * h) \div 4>>}
    IN  {<<p[2], p[1]>> : p \in {q \in positions :
             0 <= q[1] /\ q[1] < w /\ 0 <= q[2] /\ q[2] < h}}

\* (variant: the range starts at the stride)
RangeByFromStride(stop, stride) == {i \in 1..(stop - 1) : i % stride = 0}

\* range(0, stop, stride)
RangeBy(stop, stride) == {i \in 0..(stop - 1) : i % stride = 0}

pattern_border_invasion(w, h) ==
    LET border_density == Max(3, Min(8, w \div 8)) IN
    UNION {{<<0, i>>, <<h - 1, i>>} : i \in RangeBy(w, border_density)}
    \cup UNION {{<<i, 0>>, <<i, w - 1>>} : i \in RangeBy(h, border_density)}

\* _pattern_urban_centers: the cells the cluster of centre i can infect, for
\* jitter <<jx, jy>> drawn by np.random.randint(-w//10, w//10) and (-h//10, h//10).
UrbanNumCenters(w) == Max(2, w \div 20)
UrbanRadius(w) == Max(2, w \div 15)
UrbanJitters(w, h) ==
    (FloorDiv(-w, 10)..((w \div 10) - 1)) \X (FloorDiv(-h, 10)..((h \div 10) - 1))
UrbanCluster(w, h, i, j) ==
    LET num_centers == UrbanNumCenters(w)
        center_radius == UrbanRadius(w)
        base_x == ((i + 1) * w) \div (num_centers + 1)
        base_y == ((i + 1) * h) \div (num_centers + 1)
        cx == Max(center_radius, Min(w - center_radius, base_x + j[1]))
        cy == Max(center_radius, Min(h - center_radius, base_y + j[2]))
    IN  {c \in CellsOf(w, h) :
            /\ cx - center_radius <= c[2] /\ c[2] <= cx + center_radius
            /\ cy - center_radius <= c[1] /\ c[1] <= cy + center_radius}

\* Every cell of a cluster is infected when its own draw is below 0.3, so the
\* pattern can leave any subset of the clusters' union infected.
pattern_urban_centers(w, h) ==
    UNION {SUBSET (UNION {UrbanCluster(w, h, i, j[i]) : i \in 0..(UrbanNumCenters(w) - 1)}) :
           j \in [0..(UrbanNumCenters(w) - 1) -> UrbanJitters(w, h)]}

\* _pattern_random_chaos: max(5, int(width * height * 0.005))
RandomChaosCount(w, h) == Max(5, (w * h * 5) \div 1000)

\* The outcomes of the four patterns that run straight through.
PatternOutcomes(name, w, h) ==
    CASE name = "patient_zero" -> {pattern_patient_zero(w, h)}
      [] name = "airport_spread" -> {pattern_airport_spread(w, h)}
      [] name = "border_invasion" -> {pattern_border_invasion(w, h)}
      [] name = "urban_centers" -> pattern_urban_centers(w, h)

\* (variant: the contained mark of the run before survives the seeding)
SeededFieldsKeepsContained(seeds) ==
    LET g == AssignMask(Zeros(width, height), seeds, INFECTED) IN
    /\ grid' = g
    /\ infection_trails' = AssignMask(Zeros(width, height), seeds, 1)
    /\ step_count' = 0
    /\ achievements' = {}
    /\ peak_infected' = StatsPeak(g, 0)
    /\ total_ever_infected' = StatsEver(g)
    /\ total_deaths' = StatsDeaths(g)
    /\ total_recoveries' = StatsRecoveries(g)
    /\ infection_history' = <<>>
    /\ UNCHANGED outbreak_contained_step
    /\ snapshot' = Rebound(snapshot)

\* What apply_outbreak_pattern leaves after a pattern seeded the cells `seeds`:
\* reset_grid, the pattern's writes, then _update_infection_stats.
SeededFields(seeds) ==
    LET g == AssignMask(Zeros(width, height), seeds, INFECTED) IN
    /\ grid' = g
    /\ infection_trails' = AssignMask(Zeros(width, height), seeds, 1)
    /\ step_count' = 0
    /\ achievements' = {}
    /\ peak_infected' = StatsPeak(g, 0)
    /\ total_ever_infected' = StatsEver(g)
    /\ total_deaths' = StatsDeaths(g)
    /\ total_recoveries' = StatsRecoveries(g)
    /\ infection_history' = <<>>
    /\ outbreak_contained_step' = None
    /\ snapshot' = Rebound(snapshot)

\* (variant: an unknown name falls back to patient_zero and nothing is raised)
apply_outbreak_pattern_fallback(pattern_name) ==
    /\ pc = "ready"
    /\ last_call' = Call("apply_outbreak_pattern", pattern_name)
    /\ IF pattern_name = "random_chaos"
       THEN \* reset_grid, then the while loop of _pattern_random_chaos starts
            /\ ResetFields(width, height)
            /\ pc' = "random_chaos"
            /\ infected_positions' = {}
            /\ result' = "running"
       ELSE IF pattern_name \in PatternNames
       THEN /\ \E seeds \in PatternOutcomes(pattern_name, width, height) :
                   SeededFields(seeds)
            /\ result' = "None"
            /\ UNCHANGED <<pc, infected_positions>>
       ELSE /\ SeededFields(pattern_patient_zero(width, height))
            /\ result' = "None"
            /\ UNCHANGED <<pc, infected_positions>>
    /\ UNCHANGED <<width, height>>

apply_outbreak_pattern(pattern_name) ==
    /\ pc = "ready"
    /\ last_call' = Call("apply_outbreak_pattern", pattern_name)
    /\ IF pattern_name = "random_chaos"
       THEN \* reset_grid, then the while loop of _pattern_random_chaos starts
            /\ ResetFields(width, height)
            /\ pc' = "random_chaos"
            /\ infected_positions' = {}
            /\ result' = "running"
       ELSE IF pattern_name \in PatternNames
       THEN /\ \E seeds \in PatternOutcomes(pattern_name, width, height) :
                   SeededFields(seeds)
            /\ result' = "None"
            /\ UNCHANGED <<pc, infected_positions>>
       ELSE /\ ResetFields(width, height)
            /\ result' = "ValueError"
            /\ UNCHANGED <<pc, infected_positions>>
    /\ UNCHANGED <<width, height>>

\* _pattern_random_chaos from its loop head on: while the set holds fewer than
\* num_infections positions one more is drawn; then the positions are written
\* and apply_outbreak_pattern returns.
random_chaos_loop ==
    /\ pc = "random_chaos"
    /\ IF Cardinality(infected_positions) < RandomChaosCount(width, height)
       THEN /\ \E x \in 0..(width - 1), y \in 0..(height - 1) :
                   infected_positions' = infected_positions \cup {<<x, y>>}
            /\ UNCHANGED <<grid, infection_trails, step_count, achievements,
                           peak_infected, total_ever_infected, total_deaths,
                           total_recoveries, infection_history,
                           outbreak_contained_step, pc, result, snapshot>>
       ELSE /\ SeededFields({<<p[2], p[1]>> : p \in infected_positions})
            /\ pc' = "ready"
            /\ infected_positions' = {}
            /\ result' = "None"
    /\ UNCHANGED <<width, height, last_call>>

ApplyPattern == \E name \in PatternInputs : apply_outbreak_pattern(name)

\* ----------------------------------------------------------- count_neighbors
\* (variant: the centre of the kernel is 1, a cell counts itself)
neighbor_kernel_with_centre == <<<<1, 1, 1>>, <<1, 1, 1>>, <<1, 1, 1>>>>

\* self.neighbor_kernel, rows top to bottom.
neighbor_kernel == <<<<1, 1, 1>>, <<1, 0, 1>>, <<1, 1, 1>>>>

\* (variant: mode='wrap', positions off the grid read the opposite edge)
count_neighbors_wrap(g, cell_type) ==
    LET type_mask(y, x) ==
            IF g[<<y % height, x % width>>] = cell_type THEN 1 ELSE 0
        Term(c, i, j) == neighbor_kernel[i][j] * type_mask(c[1] + 2 - i, c[2] + 2 - j)
        Row(c, i) == Term(c, i, 1) + Term(c, i, 2) + Term(c, i, 3)
    IN  [c \in DOMAIN g |-> Row(c, 1) + Row(c, 2) + Row(c, 3)]

\* ndimage.convolve(type_mask, neighbor_kernel, mode='constant', cval=0):
\* the kernel is centred on each cell and positions off the grid read as cval.
count_neighbors(g, cell_type) ==
    LET type_mask(y, x) ==
            IF <<y, x>> \in DOMAIN g
            THEN (IF g[<<y, x>>] = cell_type THEN 1 ELSE 0)
            ELSE 0
        Term(c, i, j) == neighbor_kernel[i][j] * type_mask(c[1] + 2 - i, c[2] + 2 - j)
        Row(c, i) == Term(c, i, 1) + Term(c, i, 2) + Term(c, i, 3)
    IN  [c \in DOMAIN g |-> Row(c, 1) + Row(c, 2) + Row(c, 3)]

\* -------------------------------------------------------------- achievements
\* The last n entries of a list (history[-n:]).
LastN(seq, n) == SubSeq(seq, Max(1, Len(seq) - n + 1), Len(seq))

\* sum(h['new_infections'] for h in seq) and sum(h['infected'] for h in seq)
RECURSIVE SumNewInfections(_)
SumNewInfections(seq) ==
    IF seq = <<>> THEN 0 ELSE Head(seq).new_infections + SumNewInfections(Tail(seq))
RECURSIVE SumInfected(_)
SumInfected(seq) ==
    IF seq = <<>> THEN 0 ELSE Head(seq).infected + SumInfected(Tail(seq))

\* The three rate queries return floats; they are kept as <<numerator,
\* denominator>>, 0.0 being <<0, 1>>.
get_transmission_rate(history) ==
    LET recent_history == LastN(history, 5)
        total_new_infections == SumNewInfections(recent_history)
        total_infected_exposure ==
            SumInfected(SubSeq(recent_history, 1, Len(recent_history) - 1))
    IN  IF Len(history) < 2 THEN <<0, 1>>
        ELSE IF total_infected_exposure = 0 THEN <<0, 1>>
        ELSE <<total_new_infections, total_infected_exposure>>

get_mortality_rate(ever, deaths) == IF ever = 0 THEN <<0, 1>> ELSE <<deaths, ever>>

get_recovery_rate(ever, recoveries) == IF ever = 0 THEN <<0, 1>> ELSE <<recoveries, ever>>

\* get_population_stats on the given field values.
get_population_stats(g, step, peak, ever, deaths, recoveries, ach, contained, history) ==
    [healthy |-> CountOf(g, HEALTHY),
     infected |-> CountOf(g, INFECTED),
     immune |-> CountOf(g, IMMUNE),
     dead |-> CountOf(g, DEAD),
     step |-> step,
     peak_infected |-> peak,
     total_ever_infected |-> ever,
     total_deaths |-> deaths,
     total_recoveries |-> recoveries,
     transmission_rate |-> get_transmission_rate(history),
     mortality_rate |-> get_mortality_rate(ever, deaths),
     recovery_rate |-> get_recovery_rate(ever, recoveries),
     population_density |-> <<Cardinality(DOMAIN g), Cardinality(DOMAIN g)>>,
     achievements |-> ach,
     outbreak_contained |-> (contained # None),
     outbreak_active |-> has_infected_cells(g)]

\* The rules of _check_achievements on stats = get_population_stats().  The
\* float thresholds 0.25, 0.8, 0.5, 0.3, 0.2, 0.1 and 0.9 are compared as exact
\* fractions.
RulePatientZero(stats) == stats.infected > 0
\* (variant: the step counter is not looked at)
RuleRapidSpreadAnyStep(stats, total_pop) == 4 * stats.infected >= total_pop
RuleRapidSpread(stats, total_pop) == stats.step <= 10 /\ 4 * stats.infected >= total_pop
RulePandemic(stats, total_pop) == 5 * stats.peak_infected >= 4 * total_pop
\* (variant: one cell short of the whole population)
RuleExtinctionNearly(stats, total_pop) == stats.dead >= total_pop - 1
RuleExtinctionEvent(stats, total_pop) == stats.dead = total_pop
RuleSurvivor(stats, total_pop) ==
    stats.step >= 100 /\ 2 * stats.healthy >= total_pop /\ stats.infected = 0
RuleHerdImmunity(stats, total_pop) ==
    10 * stats.immune >= 3 * total_pop /\ stats.infected = 0 /\ stats.healthy > 0
RuleContainmentMaster(stats, total_pop) ==
    stats.step >= 50 /\ 5 * stats.peak_infected <= total_pop /\ stats.infected = 0
RuleEndemicState(stats, total_pop, history) ==
    /\ stats.step >= 50
    /\ Len(history) >= 20
    /\ \A k \in 1..Len(LastN(history, 20)) :
           /\ 0 < LastN(history, 20)[k].infected
           /\ 10 * LastN(history, 20)[k].infected < total_pop
RuleGhostTown(stats, total_pop) ==
    /\ 2 * stats.total_ever_infected > total_pop
    /\ 10 * stats.total_deaths >= 9 * stats.total_ever_infected

\* (variant: the set is rebuilt from the rules that hold now)
check_achievements_rebuilt(stats, history) ==
    LET total_pop == width * height IN
    {}
    \cup (IF RulePatientZero(stats) THEN {"Patient Zero"} ELSE {})
    \cup (IF RuleRapidSpread(stats, total_pop) THEN {"Rapid Spread"} ELSE {})
    \cup (IF RulePandemic(stats, total_pop) THEN {"Pandemic"} ELSE {})
    \cup (IF RuleExtinctionEvent(stats, total_pop) THEN {"Extinction Event"} ELSE {})
    \cup (IF RuleSurvivor(stats, total_pop) THEN {"Survivor"} ELSE {})
    \cup (IF RuleHerdImmunity(stats, total_pop) THEN {"Herd Immunity"} ELSE {})
    \cup (IF RuleContainmentMaster(stats, total_pop) THEN {"Containment Master"} ELSE {})
    \cup (IF RuleEndemicState(stats, total_pop, history) THEN {"Endemic State"} ELSE {})
    \cup (IF RuleGhostTown(stats, total_pop) THEN {"Ghost Town"} ELSE {})

\* _check_achievements: the achievement set it leaves.
check_achievements(stats, history) ==
    LET total_pop == width * height IN
    stats.achievements
    \cup (IF RulePatientZero(stats) THEN {"Patient Zero"} ELSE {})
    \cup (IF RuleRapidSpread(stats, total_pop) THEN {"Rapid Spread"} ELSE {})
    \cup (IF RulePandemic(stats, total_pop) THEN {"Pandemic"} ELSE {})
    \cup (IF RuleExtinctionEvent(stats, total_pop) THEN {"Extinction Event"} ELSE {})
    \cup (IF RuleSurvivor(stats, total_pop) THEN {"Survivor"} ELSE {})
    \cup (IF RuleHerdImmunity(stats, total_pop) THEN {"Herd Immunity"} ELSE {})
    \cup (IF RuleContainmentMaster(stats, total_pop) THEN {"Containment Master"} ELSE {})
    \cup (IF RuleEndemicState(stats, total_pop, history) THEN {"Endemic State"} ELSE {})
    \cup (IF RuleGhostTown(stats, total_pop) THEN {"Ghost Town"} ELSE {})

\* -------------------------------------------------------------- update_step
\* (variant: a draw can be 1.0, so False is possible at a threshold of 1)
BelowClosedDraw(num, den) == {b \in BOOLEAN : (b => num > 0) /\ (~b => num <= den)}

\* The values `u < num/den` can take for a draw u of np.random.random(): True
\* needs a positive threshold (u = 0), False a threshold below 1.
Below(num, den) == {b \in BOOLEAN : (b => num > 0) /\ (~b => num < den)}

\* The possible masks `prob < threshold` over the cells `relevant` (the cells
\* whose entry the step reads), as sets of True cells; threshold[c] = num[c]/den.
DrawMasks(relevant, num, den) ==
    {m \in SUBSET relevant : \A c \in relevant : (c \in m) \in Below(num[c], den)}

new_infections_mask(g, infected_neighbors, infection_below) ==
    {c \in DOMAIN g : g[c] = HEALTHY /\ infected_neighbors[c] > 0 /\ c \in infection_below}

new_deaths_mask(g, death_below) ==
    {c \in DOMAIN g : g[c] = INFECTED /\ c \in death_below}

\* (variant: the `~new_deaths` term is missing)
new_immunity_mask_ignoring_deaths(g, new_deaths, immunity_below) ==
    {c \in DOMAIN g : g[c] = INFECTED /\ c \in immunity_below}

new_immunity_mask(g, new_deaths, immunity_below) ==
    {c \in DOMAIN g : g[c] = INFECTED /\ c \notin new_deaths /\ c \in immunity_below}

\* (variant: the new infections are written as IMMUNE)
StepGridWrongState(g, new_infections, new_deaths, new_immunity) ==
    AssignMask(AssignMask(AssignMask(g, new_infections, IMMUNE), new_deaths, DEAD),
               new_immunity, IMMUNE)

\* The three mask assignments of update_step, in the order the code makes them.
StepGrid(g, new_infections, new_deaths, new_immunity) ==
    AssignMask(AssignMask(AssignMask(g, new_infections, INFECTED), new_deaths, DEAD),
               new_immunity, IMMUNE)

\* (variant: the entry is built before the step counter is incremented)
HistoryEntryOldStep(step, g, new_infections, new_deaths, new_immunity) ==
    [step |-> step - 1,
     infected |-> CountOf(g, INFECTED),
     new_infections |-> Cardinality(new_infections),
     new_deaths |-> Cardinality(new_deaths),
     new_recoveries |-> Cardinality(new_immunity)]

\* (variant: `infected` holds the number of new infections)
HistoryEntryInfectedIsNew(step, g, new_infections, new_deaths, new_immunity) ==
    [step |-> step,
     infected |-> Cardinality(new_infections),
     new_infections |-> Cardinality(new_infections),
     new_deaths |-> Cardinality(new_deaths),
     new_recoveries |-> Cardinality(new_immunity)]

HistoryEntry(step, g, new_infections, new_deaths, new_immunity) ==
    [step |-> step,
     infected |-> CountOf(g, INFECTED),
     new_infections |-> Cardinality(new_infections),
     new_deaths |-> Cardinality(new_deaths),
     new_recoveries |-> Cardinality(new_immunity)]

\* (variant: the early return comes after the step counter is incremented)
StepNoopCountsStep ==
    /\ outbreak_contained_step' =
           IF step_count > 0 /\ outbreak_contained_step = None
           THEN step_count ELSE outbreak_contained_step
    /\ step_count' = step_count + 1
    /\ UNCHANGED <<grid, infection_trails, achievements, peak_infected,
                   total_ever_infected, total_deaths, total_recoveries, infection_history,
                   snapshot>>

\* (variant: the mark is set without looking at the step counter)
StepNoopAlwaysMarks ==
    /\ outbreak_contained_step' =
           IF outbreak_contained_step = None THEN step_count ELSE outbreak_contained_step
    /\ UNCHANGED <<grid, infection_trails, step_count, achievements, peak_infected,
                   total_ever_infected, total_deaths, total_recoveries, infection_history,
                   snapshot>>

\* The early return of update_step when no cell is infected.
StepNoop ==
    /\ outbreak_contained_step' =
           IF step_count > 0 /\ outbreak_contained_step = None
           THEN step_count ELSE outbreak_contained_step
    /\ UNCHANGED <<grid, infection_trails, step_count, achievements, peak_infected,
                   total_ever_infected, total_deaths, total_recoveries, infection_history,
                   snapshot>>

\* (variant: the trail is marked on the cells that died, not the new infections)
StepAppliedTrailsDeaths(new_infections, new_deaths, new_immunity) ==
    LET g == StepGrid(grid, new_infections, new_deaths, new_immunity)
        step == step_count + 1
        peak == StatsPeak(g, peak_infected)
        history == Append(infection_history,
                          HistoryEntry(step, g, new_infections, new_deaths, new_immunity))
    IN  /\ grid' = g
        /\ infection_trails' = AssignMask(infection_trails, new_deaths, 1)
        /\ step_count' = step
        /\ peak_infected' = peak
        /\ total_ever_infected' = StatsEver(g)
        /\ total_deaths' = StatsDeaths(g)
        /\ total_recoveries' = StatsRecoveries(g)
        /\ infection_history' = history
        /\ achievements' =
               check_achievements(
                   get_population_stats(g, step, peak, StatsEver(g), StatsDeaths(g),
                                        StatsRecoveries(g), achievements,
                                        outbreak_contained_step, history),
                   history)
        /\ UNCHANGED outbreak_contained_step
        /\ snapshot' = Written(snapshot, g)

\* The body of update_step for the masks the three draws produced.
StepApplied(new_infections, new_deaths, new_immunity) ==
    LET g == StepGrid(grid, new_infections, new_deaths, new_immunity)
        step == step_count + 1
        peak == StatsPeak(g, peak_infected)
        history == Append(infection_history,
                          HistoryEntry(step, g, new_infections, new_deaths, new_immunity))
    IN  /\ grid' = g
        /\ infection_trails' = AssignMask(infection_trails, new_infections, 1)
        /\ step_count' = step
        /\ peak_infected' = peak
        /\ total_ever_infected' = StatsEver(g)
        /\ total_deaths' = StatsDeaths(g)
        /\ total_recoveries' = StatsRecoveries(g)
        /\ infection_history' = history
        /\ achievements' =
               check_achievements(
                   get_population_stats(g, step, peak, StatsEver(g), StatsDeaths(g),
                                        StatsRecoveries(g), achievements,
                                        outbreak_contained_step, history),
                   history)
        /\ UNCHANGED outbreak_contained_step
        /\ snapshot' = Written(snapshot, g)

\* update_step past its early return, for the outcomes of the three draws.
StepBody(infection_below, death_below, immunity_below) ==
    LET infected_neighbors == count_neighbors(grid, INFECTED)
        new_infections == new_infections_mask(grid, infected_neighbors, infection_below)
        new_deaths == new_deaths_mask(grid, death_below)
        new_immunity == new_immunity_mask(grid, new_deaths, immunity_below)
    IN  /\ pc = "ready"
        /\ has_infected_cells(grid)
        /\ StepApplied(new_infections, new_deaths, new_immunity)
        /\ last_call' = Call("update_step", "")
        /\ result' = "None"
        /\ UNCHANGED <<width, height, pc, infected_positions>>

\* update_step with the masks made explicit, while the step counter is below
\* MaxSteps.
StepWith(infection_rate, death_rate, immunity_rate, infection_below, death_below, immunity_below) ==
    /\ step_count < MaxSteps
    /\ StepBody(infection_below, death_below, immunity_below)

\* The masks the draws of one update_step call can produce on the current grid.
InfectionDraws(infection_rate) ==
    LET infected_neighbors == count_neighbors(grid, INFECTED) IN
    DrawMasks({c \in Cells : grid[c] = HEALTHY /\ infected_neighbors[c] > 0},
              [c \in Cells |-> infected_neighbors[c] * infection_rate[1]],
              8 * infection_rate[2])
DeathDraws(death_rate) ==
    DrawMasks({c \in Cells : grid[c] = INFECTED}, [c \in Cells |-> death_rate[1]],
              death_rate[2])
ImmunityDraws(immunity_rate) ==
    DrawMasks({c \in Cells : grid[c] = INFECTED}, [c \in Cells |-> immunity_rate[1]],
              immunity_rate[2])

update_step(infection_rate, death_rate, immunity_rate) ==
    \/ /\ pc = "ready"
       /\ ~has_infected_cells(grid)
       /\ StepNoop
       /\ last_call' = Call("update_step", "")
       /\ result' = "None"
       /\ UNCHANGED <<width, height, pc, infected_positions>>
    \/ \E infection_below \in InfectionDraws(infection_rate),
          death_below \in DeathDraws(death_rate),
          immunity_below \in ImmunityDraws(immunity_rate) :
           StepWith(infection_rate, death_rate, immunity_rate, infection_below,
                    death_below, immunity_below)

UpdateStep ==
    \E infection_rate \in Rates, death_rate \in Rates, immunity_rate \in Rates :
        update_step(infection_rate, death_rate, immunity_rate)

\* update_step with death_rate = 0 and immunity_rate = 0, where the grid can
\* only gain Infected cells, while the step counter is below LongSteps.
update_step_spreading(infection_rate) ==
    \/ /\ pc = "ready"
       /\ ~has_infected_cells(grid)
       /\ StepNoop
       /\ last_call' = Call("update_step", "")
       /\ result' = "None"
       /\ UNCHANGED <<width, height, pc, infected_positions>>
    \/ \E infection_below \in InfectionDraws(infection_rate),
          death_below \in DeathDraws(<<0, 1>>),
          immunity_below \in ImmunityDraws(<<0, 1>>) :
           /\ step_count < LongSteps
           /\ StepBody(infection_below, death_below, immunity_below)

UpdateStepSpreading == \E infection_rate \in Rates : update_step_spreading(infection_rate)

\* Rates outside [0, 1] that a caller can pass as well: -1/2 and 3/2.  The code
\* compares the draws with whatever threshold the rates give.
OutsideRates == {<<-1, 2>>, <<3, 2>>}

\* update_step called with at least one of its rates outside [0, 1].
UpdateStepOutside ==
    \E infection_rate \in Rates \cup OutsideRates, death_rate \in Rates \cup OutsideRates,
       immunity_rate \in Rates \cup OutsideRates :
        /\ {infection_rate, death_rate, immunity_rate} \cap OutsideRates # {}
        /\ update_step(infection_rate, death_rate, immunity_rate)

\* -------------------------------------------------------------- infect_cell
\* (variant: the trail is not marked)
infect_cell_no_trail(x, y) ==
    /\ pc = "ready"
    /\ IF ~(0 <= x /\ x < width /\ 0 <= y /\ y < height)
       THEN /\ result' = "False"
            /\ last_call' = ReturnedAt("infect_cell", "out of bounds")
            /\ UNCHANGED <<grid, infection_trails, peak_infected, total_ever_infected,
                           total_deaths, total_recoveries>>
       ELSE IF grid[<<y, x>>] = HEALTHY
       THEN LET g == [grid EXCEPT ![<<y, x>>] = INFECTED] IN
            /\ grid' = g
            /\ UNCHANGED infection_trails
            /\ peak_infected' = StatsPeak(g, peak_infected)
            /\ total_ever_infected' = StatsEver(g)
            /\ total_deaths' = StatsDeaths(g)
            /\ total_recoveries' = StatsRecoveries(g)
            /\ result' = "True"
            /\ last_call' = ReturnedAt("infect_cell", "infected")
       ELSE /\ result' = "False"
            /\ last_call' = ReturnedAt("infect_cell", "not healthy")
            /\ UNCHANGED <<grid, infection_trails, peak_infected, total_ever_infected,
                           total_deaths, total_recoveries>>
    /\ snapshot' = Written(snapshot, grid')
    /\ UNCHANGED <<width, height, step_count, achievements, infection_history,
                   outbreak_contained_step, pc, infected_positions>>

\* (variant: every cell that is not Dead can be infected)
infect_cell_not_dead(x, y) ==
    /\ pc = "ready"
    /\ IF ~(0 <= x /\ x < width /\ 0 <= y /\ y < height)
       THEN /\ result' = "False"
            /\ last_call' = ReturnedAt("infect_cell", "out of bounds")
            /\ UNCHANGED <<grid, infection_trails, peak_infected, total_ever_infected,
                           total_deaths, total_recoveries>>
       ELSE IF grid[<<y, x>>] # DEAD
       THEN LET g == [grid EXCEPT ![<<y, x>>] = INFECTED] IN
            /\ grid' = g
            /\ infection_trails' = [infection_trails EXCEPT ![<<y, x>>] = 1]
            /\ peak_infected' = StatsPeak(g, peak_infected)
            /\ total_ever_infected' = StatsEver(g)
            /\ total_deaths' = StatsDeaths(g)
            /\ total_recoveries' = StatsRecoveries(g)
            /\ result' = "True"
            /\ last_call' = ReturnedAt("infect_cell", "infected")
       ELSE /\ result' = "False"
            /\ last_call' = ReturnedAt("infect_cell", "not healthy")
            /\ UNCHANGED <<grid, infection_trails, peak_infected, total_ever_infected,
                           total_deaths, total_recoveries>>
    /\ snapshot' = Written(snapshot, grid')
    /\ UNCHANGED <<width, height, step_count, achievements, infection_history,
                   outbreak_contained_step, pc, infected_positions>>

infect_cell(x, y) ==
    /\ pc = "ready"
    /\ IF ~(0 <= x /\ x < width /\ 0 <= y /\ y < height)
       THEN /\ result' = "False"
            /\ last_call' = ReturnedAt("infect_cell", "out of bounds")
            /\ UNCHANGED <<grid, infection_trails, peak_infected, total_ever_infected,
                           total_deaths, total_recoveries>>
       ELSE IF grid[<<y, x>>] = HEALTHY
       THEN LET g == [grid EXCEPT ![<<y, x>>] = INFECTED] IN
            /\ grid' = g
            /\ infection_trails' = [infection_trails EXCEPT ![<<y, x>>] = 1]
            /\ peak_infected' = StatsPeak(g, peak_infected)
            /\ total_ever_infected' = StatsEver(g)
            /\ total_deaths' = StatsDeaths(g)
            /\ total_recoveries' = StatsRecoveries(g)
            /\ result' = "True"
            /\ last_call' = ReturnedAt("infect_cell", "infected")
       ELSE /\ result' = "False"
            /\ last_call' = ReturnedAt("infect_cell", "not healthy")
            /\ UNCHANGED <<grid, infection_trails, peak_infected, total_ever_infected,
                           total_deaths, total_recoveries>>
    /\ snapshot' = Written(snapshot, grid')
    /\ UNCHANGED <<width, height, step_count, achievements, infection_history,
                   outbreak_contained_step, pc, infected_positions>>

\* Arguments tried: every cell of the grid and one index beyond each edge.
InfectArgs ==
    {<<x, y>> : x \in 0..(width - 1), y \in 0..(height - 1)}
    \cup {<<-1, 0>>, <<width, 0>>, <<0, -1>>, <<0, height>>}

InfectCell == \E a \in InfectArgs : infect_cell(a[1], a[2])


\* ------------------------------------------------------------ get_grid_copy
\* (variant: the grid itself is returned, not a copy)
grid_no_copy(g) == [aliased |-> TRUE, cells |-> g]

\* self.grid.copy(): a new array with the same contents.
grid_copy(g) == [aliased |-> FALSE, cells |-> g]

get_grid_copy ==
    /\ pc = "ready"
    /\ snapshot' = grid_copy(grid)
    /\ last_call' = Call("get_grid_copy", "")
    /\ result' = "array"
    /\ UNCHANGED <<width, height, grid, infection_trails, step_count, achievements,
                   peak_infected, total_ever_infected, total_deaths, total_recoveries,
                   infection_history, outbreak_contained_step, pc, infected_positions>>

\* The caller assigns one element of the array get_grid_copy returned; the
\* simulation's grid is written too when it is the same array.
write_snapshot(c, value) ==
    /\ pc = "ready"
    /\ c \in DOMAIN snapshot.cells
    /\ snapshot' = [snapshot EXCEPT !.cells[c] = value]
    /\ grid' = IF snapshot.aliased THEN [grid EXCEPT ![c] = value] ELSE grid
    /\ last_call' = Call("write_snapshot", "")
    /\ result' = "None"
    /\ UNCHANGED <<width, height, infection_trails, step_count, achievements,
                   peak_infected, total_ever_infected, total_deaths, total_recoveries,
                   infection_history, outbreak_contained_step, pc, infected_positions>>

WriteSnapshot == \E c \in Cells, value \in {HEALTHY, INFECTED, IMMUNE, DEAD} : write_snapshot(c, value)

\* ------------------------------------------------------ get_new_achievements
\* (variant: the names the caller knows and the simulation has not)
new_achievements_reversed(current, previous_achievements) == previous_achievements \ current

\* self.achievements - previous_achievements: a new set, neither operand is
\* written.
new_achievements(current, previous_achievements) == current \ previous_achievements

\* Sets a caller passes as previous_achievements; "Survivor" is a name the
\* grids of the model never earn.
PreviousSets == SUBSET {"Patient Zero", "Pandemic", "Survivor"}

\* The call is recorded with its argument and the set it returned.
get_new_achievements(previous_achievements) ==
    /\ pc = "ready"
    /\ last_call' = [op |-> "get_new_achievements", pattern |-> "", exit |-> "",
                     previous |-> previous_achievements,
                     returned |-> new_achievements(achievements, previous_achievements)]
    /\ result' = "set"
    /\ UNCHANGED <<width, height, grid, infection_trails, step_count, achievements,
                   peak_infected, total_ever_infected, total_deaths, total_recoveries,
                   infection_history, outbreak_contained_step, pc, infected_positions,
                   snapshot>>

GetNewAchievements == \E previous \in PreviousSets : get_new_achievements(previous)

\* ----------------------------------------------------- count_neighbors calls
\* Sizes <<width, height>> on which count_neighbors is called for every grid.
NeighborDims == {<<3, 3>>, <<2, 3>>, <<3, 2>>, <<4, 1>>}

\* The states a new simulation is in after any number of infect_cell calls:
\* any set of cells Infected and trailed, the statistics those of that grid.
InitInfected ==
    \E d \in NeighborDims :
        \E seeds \in SUBSET CellsOf(d[1], d[2]) :
            LET g == AssignMask(Zeros(d[1], d[2]), seeds, INFECTED) IN
            /\ width = d[1]
            /\ height = d[2]
            /\ grid = g
            /\ step_count = 0
            /\ achievements = {}
            /\ infection_trails = AssignMask(Zeros(d[1], d[2]), seeds, 1)
            /\ peak_infected = StatsPeak(g, 0)
            /\ total_ever_infected = StatsEver(g)
            /\ total_deaths = StatsDeaths(g)
            /\ total_recoveries = StatsRecoveries(g)
            /\ infection_history = <<>>
            /\ outbreak_contained_step = None
            /\ pc = "ready"
            /\ infected_positions = {}
            /\ last_call = IF seeds = {} THEN Call("__init__", "")
                           ELSE ReturnedAt("infect_cell", "infected")
            /\ result = IF seeds = {} THEN "None" ELSE "True"
            /\ snapshot = NoSnapshot

\* A call of count_neighbors(cell_type), recorded with the array it returned.
CountNeighbors ==
    \E cell_type \in {HEALTHY, INFECTED, IMMUNE, DEAD} :
        /\ pc = "ready"
        /\ last_call' = [op |-> "count_neighbors", pattern |-> "", exit |-> "",
                         cell_type |-> cell_type,
                         returned |-> count_neighbors(grid, cell_type)]
        /\ result' = "array"
        /\ UNCHANGED <<width, height, grid, infection_trails, step_count, achievements,
                       peak_infected, total_ever_infected, total_deaths,
                       total_recoveries, infection_history, outbreak_contained_step,
                       pc, infected_positions, snapshot>>

\* ------------------------------------------------------------------ claims
\* Moore adjacency, stated on coordinates: a different cell at most one row and
\* one column away.
Adjacent(c, d) ==
    /\ c # d
    /\ c[1] - d[1] \in -1..1
    /\ c[2] - d[2] \in -1..1

Last(seq) == seq[Len(seq)]

\* A transition made by a call of update_step, and one made by its body (not
\* by its early return).
StepCall == last_call'.op = "update_step"
AppliedStep == StepCall /\ step_count' = step_count + 1

\* A transition inside one run: made neither by reset_grid nor by
\* apply_outbreak_pattern.
WithinRun == last_call'.op \notin {"reset_grid", "apply_outbreak_pattern"}

Zero == <<0, 1>>
One == <<1, 1>>

\* What getStats() returns in the current state.
Stats ==
    get_population_stats(grid, step_count, peak_infected, total_ever_infected,
                         total_deaths, total_recoveries, achievements,
                         outbreak_contained_step, infection_history)

\* The cells that change from state `from` to state `to` over a transition.
Moved(from, to) == {c \in Cells : grid[c] = from /\ grid'[c] = to}

\* C1: after reset_grid, whatever the state it was called in and whatever the
\* grid's size, every cell is Healthy, every trail marker is cleared, the step
\* counter and the four cumulative statistics are 0, the history and the
\* achievement set are empty and outbreak_contained is false.
C1_ResetClearsEverything ==
    last_call.op = "reset_grid" =>
        /\ DOMAIN grid = Cells /\ DOMAIN infection_trails = Cells
        /\ \A c \in Cells : grid[c] = HEALTHY /\ infection_trails[c] = 0
        /\ step_count = 0
        /\ peak_infected = 0
        /\ total_ever_infected = 0
        /\ total_deaths = 0
        /\ total_recoveries = 0
        /\ infection_history = <<>>
        /\ achievements = {}
        /\ ~Stats.outbreak_contained

\* C1 witness: reset_grid has just returned on a grid of more than one cell.
C1_Witness == last_call.op = "reset_grid" /\ width * height > 1

\* The mask triples <<new_infections, new_deaths, new_immunity>> one update_step
\* call with the given rates can compute on the current grid, over all draws.
StepMasks(infection_rate, death_rate, immunity_rate) ==
    {<<new_infections_mask(grid, count_neighbors(grid, INFECTED), a),
       new_deaths_mask(grid, b),
       new_immunity_mask(grid, new_deaths_mask(grid, b), c)>> :
         a \in InfectionDraws(infection_rate),
         b \in DeathDraws(death_rate),
         c \in ImmunityDraws(immunity_rate)}

\* C2: in every applied step a cell that becomes Infected was Healthy and had
\* an Infected Moore neighbour in the grid before the step; so a step from a
\* grid where no Healthy cell has an Infected neighbour infects nothing, and a
\* step with infection_rate = 0 infects nothing whatever the draws.
C2_NewlyInfected == {c \in Cells : grid'[c] = INFECTED /\ grid[c] # INFECTED}

C2_NobodyExposed ==
    \A c \in Cells : grid[c] = HEALTHY =>
        ~\E d \in Cells : Adjacent(c, d) /\ grid[d] = INFECTED

C2_ZeroRateInfectsNothing ==
    \A death_rate \in Rates, immunity_rate \in Rates :
        \A m \in StepMasks(Zero, death_rate, immunity_rate) :
            /\ m[1] = {}
            /\ \A c \in Cells :
                   StepGrid(grid, m[1], m[2], m[3])[c] = INFECTED => grid[c] = INFECTED

C2_InfectionNeedsInfectedNeighbour ==
    /\ []C2_ZeroRateInfectsNothing
    /\ [][StepCall =>
              /\ \A c \in C2_NewlyInfected :
                     /\ grid[c] = HEALTHY
                     /\ \E d \in Cells : Adjacent(c, d) /\ grid[d] = INFECTED
              /\ AppliedStep =>
                     Last(infection_history').new_infections
                         = Cardinality(C2_NewlyInfected)
              /\ (AppliedStep /\ C2_NobodyExposed) =>
                     /\ C2_NewlyInfected = {}
                     /\ Last(infection_history').new_infections = 0
         ]_vars

\* C2 witness: a step has infected one cell and left another one Healthy.
C2_Witness ==
    /\ last_call.op = "update_step"
    /\ step_count > 0
    /\ Last(infection_history).new_infections > 0
    /\ \E c \in Cells : grid[c] = HEALTHY

\* C3: over one update_step call a cell goes Healthy->Healthy,
\* Healthy->Infected, Infected->Infected, Infected->Dead, Infected->Immune,
\* Immune->Immune or Dead->Dead, and nothing else.
C3_AllowedPairs ==
    {<<HEALTHY, HEALTHY>>, <<HEALTHY, INFECTED>>, <<INFECTED, INFECTED>>,
     <<INFECTED, DEAD>>, <<INFECTED, IMMUNE>>, <<IMMUNE, IMMUNE>>, <<DEAD, DEAD>>}

C3_OnlyAllowedTransitions ==
    [][StepCall => \A c \in Cells : <<grid[c], grid'[c]>> \in C3_AllowedPairs]_vars

\* C3 witness: a second step has run on a grid that held Dead or Immune cells,
\* and cells of three different states are left.
C3_Witness ==
    /\ last_call.op = "update_step"
    /\ step_count = 2
    /\ infection_history[1].new_deaths + infection_history[1].new_recoveries > 0
    /\ \E c \in Cells : grid[c] = DEAD
    /\ \E c \in Cells : grid[c] = IMMUNE
    /\ \E c \in Cells : grid[c] = INFECTED

\* C4: whatever the rates and the draws, the cells a step selects for death and
\* the cells it selects for immunity are disjoint and every cell selected for
\* death ends the step Dead; with death_rate = 1 no cell is selected for
\* immunity, whatever immunity_rate is; and the deaths and recoveries a step
\* records are the cells that went from Infected to Dead and to Immune.
C4_MasksDisjoint ==
    \A infection_rate \in Rates, death_rate \in Rates, immunity_rate \in Rates :
        \A m \in StepMasks(infection_rate, death_rate, immunity_rate) :
            /\ m[2] \cap m[3] = {}
            /\ \A c \in m[2] : StepGrid(grid, m[1], m[2], m[3])[c] = DEAD
            /\ death_rate = One =>
                   /\ m[3] = {}
                   /\ \A c \in Cells :
                          StepGrid(grid, m[1], m[2], m[3])[c] = IMMUNE => grid[c] = IMMUNE

C4_DeathBeforeImmunity ==
    /\ []C4_MasksDisjoint
    /\ [][AppliedStep =>
              /\ Last(infection_history').new_deaths = Cardinality(Moved(INFECTED, DEAD))
              /\ Last(infection_history').new_recoveries
                     = Cardinality(Moved(INFECTED, IMMUNE))
         ]_vars

\* C4 witness: one step has killed a cell and made another one immune.
C4_Witness ==
    /\ last_call.op = "update_step"
    /\ step_count > 0
    /\ Last(infection_history).new_deaths > 0
    /\ Last(infection_history).new_recoveries > 0

\* C5: update_step(0, 1, 0) on a grid with an Infected cell turns every
\* Infected cell Dead, leaves every other cell as it was, raises total_deaths
\* by the number of cells that were Infected and appends a history entry with
\* new_infections = 0 and new_recoveries = 0.
C5_AllInfectedDie ==
    [][(AppliedStep /\ update_step(Zero, One, Zero)) =>
           /\ \A c \in Cells :
                  grid'[c] = IF grid[c] = INFECTED THEN DEAD ELSE grid[c]
           /\ total_deaths' = total_deaths + CountOf(grid, INFECTED)
           /\ Len(infection_history') = Len(infection_history) + 1
           /\ Last(infection_history').new_infections = 0
           /\ Last(infection_history').new_recoveries = 0
           /\ Last(infection_history').new_deaths = CountOf(grid, INFECTED)
      ]_vars

\* C5 witness: a first step has killed the only Infected cell next to a cell
\* that is still Healthy, with no infection and no recovery recorded.
C5_Witness ==
    /\ last_call.op = "update_step"
    /\ step_count = 1
    /\ Last(infection_history) =
           [step |-> 1, infected |-> 0, new_infections |-> 0, new_deaths |-> 1,
            new_recoveries |-> 0]
    /\ total_deaths = 1
    /\ \E c, d \in Cells : Adjacent(c, d) /\ grid[c] = DEAD /\ grid[d] = HEALTHY

\* C6: an update_step call made while no cell is Infected changes nothing but
\* the outbreak-contained mark: grid, trail, step counter, cumulative
\* statistics, history and achievements stay as they were.
C6_NoInfectedStepIsNoop ==
    [][(StepCall /\ ~has_infected_cells(grid)) =>
           UNCHANGED <<grid, infection_trails, step_count, peak_infected,
                       total_ever_infected, total_deaths, total_recoveries,
                       infection_history, achievements>>
      ]_vars

\* C6 witness: update_step has returned early after an outbreak that ran and
\* died out, and has set the contained mark.
C6_Witness ==
    /\ last_call.op = "update_step"
    /\ ~has_infected_cells(grid)
    /\ step_count > 0
    /\ outbreak_contained_step = step_count
    /\ Len(infection_history) = step_count

\* C7: within one run total_ever_infected never decreases, over update_step
\* with any rates and over infect_cell.
C7_TotalEverInfectedMonotone ==
    [][WithinRun => total_ever_infected' >= total_ever_infected]_vars

\* C7 witness: a second step has infected a cell after a first one killed or
\* cured one.
C7_Witness ==
    /\ last_call.op = "update_step"
    /\ step_count = 2
    /\ infection_history[1].new_deaths + infection_history[1].new_recoveries > 0
    /\ infection_history[2].new_infections > 0
    /\ total_ever_infected = width * height

\* C8: peak_infected is the running maximum of the Infected count over the
\* states since the last reset: it equals the count right after reset_grid and
\* apply_outbreak_pattern, and after every other call it is the larger of its
\* old value and the new count (so it never decreases within a run).
C8_PeakIsRunningMaximum ==
    /\ peak_infected = CountOf(grid, INFECTED)
    /\ [][/\ ~WithinRun => peak_infected' = CountOf(grid', INFECTED)
          /\ WithinRun => /\ peak_infected' = Max(peak_infected, CountOf(grid', INFECTED))
                          /\ peak_infected' >= peak_infected
         ]_vars

\* C8 witness: after steps in which the Infected count fell, infect_cell has
\* raised it again, still below the peak.
C8_Witness ==
    /\ last_call.op = "infect_cell"
    /\ result = "True"
    /\ step_count > 0
    /\ 0 < CountOf(grid, INFECTED)
    /\ CountOf(grid, INFECTED) < peak_infected

\* C9: in every state "Extinction Event" is among the achievements getStats()
\* reports exactly when every cell is Dead, and within a run it is never removed.
C9_InStats == "Extinction Event" \in Stats.achievements

C9_ExtinctionIffAllDead ==
    /\ [](C9_InStats <=> Stats.dead = width * height)
    /\ [][(WithinRun /\ C9_InStats) => C9_InStats']_vars

\* C9 witness: every cell of a grid of several cells is Dead, and calls made
\* after the last applied step still see the achievement.
C9_Witness ==
    /\ C9_InStats
    /\ width * height > 1
    /\ last_call.op = "infect_cell"
    /\ \A c \in Cells : grid[c] = DEAD

\* C10: apply_outbreak_pattern("patient_zero") leaves exactly one Infected
\* cell, at row height div 2 and column width div 2, every other cell Healthy,
\* has_infected_cells() true and the step counter 0; on a 5x5 grid the cell is
\* (2, 2).
C10_PatientZeroAtCentre ==
    /\ pattern_patient_zero(5, 5) = {<<2, 2>>}
    /\ last_call = Call("apply_outbreak_pattern", "patient_zero") =>
           /\ result = "None"
           /\ \A c \in Cells :
                  grid[c] = IF c = <<height \div 2, width \div 2>> THEN INFECTED ELSE HEALTHY
           /\ CountOf(grid, INFECTED) = 1
           /\ has_infected_cells(grid)
           /\ step_count = 0

\* C10 witness: patient_zero has been applied to a grid of three cells.
C10_Witness ==
    /\ last_call = Call("apply_outbreak_pattern", "patient_zero")
    /\ width * height = 3
    /\ CountOf(grid, INFECTED) = 1

\* Whether row `row`, column `col` is a cell of the grid.
InGrid(row, col) == 0 <= row /\ row < height /\ 0 <= col /\ col < width

\* A transition in which the cell at row `row`, column `col`, and no other,
\* turns Infected and gets its trail marked, the call returning True, with the
\* step counter, the history and the achievements left as they were.
InfectedExactly(row, col) ==
    /\ result' = "True"
    /\ grid' = [c \in Cells |-> IF c = <<row, col>> THEN INFECTED ELSE grid[c]]
    /\ infection_trails' =
           [c \in Cells |-> IF c = <<row, col>> THEN 1 ELSE infection_trails[c]]
    /\ UNCHANGED <<step_count, infection_history, achievements>>

\* C11 as stated: infectCell(row, col), the row being the first argument and
\* the column the second, on an in-bounds Healthy cell of a grid of any shape
\* returns true and infects exactly the cell at that row and column.
C11_RowFirst ==
    [][\A a \in InfectArgs :
           (infect_cell(a[1], a[2]) /\ InGrid(a[1], a[2]) /\ grid[<<a[1], a[2]>>] = HEALTHY)
               => InfectedExactly(a[1], a[2])
      ]_vars

\* C11 (amended): infect_cell(x, y) takes the column x first and the row y
\* second; when row y, column x is in bounds and Healthy, on a grid of any
\* shape, it returns True, sets exactly that cell to Infected, marks its trail
\* and leaves every other cell, the step counter, the history and the
\* achievements unchanged.
C11_ColumnFirst ==
    [][\A a \in InfectArgs :
           (infect_cell(a[1], a[2]) /\ InGrid(a[2], a[1]) /\ grid[<<a[2], a[1]>>] = HEALTHY)
               => InfectedExactly(a[2], a[1])
      ]_vars

\* C11 witness: on a grid that is not square, after a step that earned an
\* achievement, infect_cell has infected a cell and another cell is not Infected.
C11_Witness ==
    /\ last_call = ReturnedAt("infect_cell", "infected")
    /\ result = "True"
    /\ width # height
    /\ step_count > 0
    /\ achievements # {}
    /\ \E c \in Cells : grid[c] # INFECTED

\* C12: infect_cell addressed to an in-bounds cell that is Infected, Immune or
\* Dead returns False and leaves grid, trail, step counter, cumulative
\* statistics, history, achievements and the contained mark as they were.
C12_NonHealthyIsNoop ==
    [][\A a \in InfectArgs :
           (/\ infect_cell(a[1], a[2])
            /\ InGrid(a[2], a[1])
            /\ grid[<<a[2], a[1]>>] \in {INFECTED, IMMUNE, DEAD})
               => /\ result' = "False"
                  /\ UNCHANGED <<grid, infection_trails, step_count, peak_infected,
                                 total_ever_infected, total_deaths, total_recoveries,
                                 infection_history, achievements,
                                 outbreak_contained_step>>
                  /\ Stats' = Stats
      ]_vars

\* C12 witness: infect_cell has returned False from its last statement, on a
\* grid that holds a Dead cell, an Immune cell and a Healthy one.
C12_Witness ==
    /\ last_call = ReturnedAt("infect_cell", "not healthy")
    /\ result = "False"
    /\ \E c \in Cells : grid[c] = DEAD
    /\ \E c \in Cells : grid[c] = IMMUNE
    /\ \E c \in Cells : grid[c] = HEALTHY

\* C13: infect_cell called with an index outside the grid (negative, row >=
\* height or column >= width) fails with an OutOfBounds error instead of
\* returning a value, and leaves the simulation state unchanged.
C13_OutOfBoundsFails ==
    [][\A a \in InfectArgs :
           (infect_cell(a[1], a[2]) /\ ~InGrid(a[2], a[1]))
               => /\ result' = "OutOfBounds"
                  /\ UNCHANGED <<grid, infection_trails, step_count, peak_infected,
                                 total_ever_infected, total_deaths, total_recoveries,
                                 infection_history, achievements,
                                 outbreak_contained_step>>
      ]_vars

\* C14: apply_outbreak_pattern with a name outside the five pattern names
\* raises ValueError (the InvalidArgument failure) to the caller and leaves no
\* cell Infected.
C14_UnknownPatternFails ==
    (last_call.op = "apply_outbreak_pattern" /\ last_call.pattern \notin PatternNames) =>
        /\ result = "ValueError"
        /\ \A c \in Cells : grid[c] # INFECTED
        /\ ~has_infected_cells(grid)

\* C14 witness: the call with an unknown name has failed on a grid of three cells.
C14_Witness ==
    /\ last_call = Call("apply_outbreak_pattern", "no_such_pattern")
    /\ result = "ValueError"
    /\ width * height = 3

\* C15: update_step called with any of its three rates outside [0, 1] is
\* rejected with a ValueError (the InvalidArgument failure) and changes no
\* cell, counter, history entry or achievement.
C15_OutsideRateRejected ==
    [][\A infection_rate \in Rates \cup OutsideRates, death_rate \in Rates \cup OutsideRates,
          immunity_rate \in Rates \cup OutsideRates :
           (/\ {infection_rate, death_rate, immunity_rate} \cap OutsideRates # {}
            /\ update_step(infection_rate, death_rate, immunity_rate))
               => /\ result' = "ValueError"
                  /\ UNCHANGED <<grid, infection_trails, step_count, peak_infected,
                                 total_ever_infected, total_deaths, total_recoveries,
                                 infection_history, achievements>>
      ]_vars

\* C16: get_grid_copy returns an independent copy holding the grid of the
\* moment: writing to the returned array changes neither the simulation's grid
\* nor what getStats() returns afterwards, and a later update_step,
\* infect_cell, apply_outbreak_pattern or reset_grid does not change an array
\* returned earlier.
C16_SnapshotIsIndependent ==
    [][/\ last_call'.op = "get_grid_copy" =>
              /\ snapshot'.cells = grid
              /\ UNCHANGED grid
              /\ Stats' = Stats
       /\ last_call'.op = "write_snapshot" =>
              /\ UNCHANGED grid
              /\ Stats' = Stats
       /\ last_call'.op \in {"update_step", "infect_cell", "apply_outbreak_pattern",
                             "reset_grid"} =>
              snapshot'.cells = snapshot.cells
      ]_vars

\* C16 witness: a snapshot taken while a cell was Infected has been written to
\* by the caller, and a step has then changed the grid; the three differ.
C16_Witness ==
    /\ last_call.op = "update_step"
    /\ step_count > 0
    /\ DOMAIN snapshot.cells = Cells
    /\ \E c \in Cells : snapshot.cells[c] = IMMUNE /\ grid[c] = DEAD
    /\ \E c \in Cells : snapshot.cells[c] # grid[c] /\ snapshot.cells[c] = INFECTED

\* C17: after a successful apply_outbreak_pattern the step counter is 0, the
\* history is empty, the cumulative statistics are those of the seeded grid,
\* and the achievement rules have been evaluated on the seeded grid: every
\* achievement whose rule holds there, "Patient Zero" when a cell is Infected
\* among them, is in the achievement set before any step.
C17_AchievementsAfterSeeding ==
    (last_call.op = "apply_outbreak_pattern" /\ result = "None") =>
        /\ step_count = 0
        /\ infection_history = <<>>
        /\ peak_infected = CountOf(grid, INFECTED)
        /\ total_ever_infected = CountOf(grid, INFECTED)
        /\ total_deaths = 0
        /\ total_recoveries = 0
        /\ check_achievements(Stats, infection_history) \subseteq achievements
        /\ CountOf(grid, INFECTED) > 0 => "Patient Zero" \in achievements

\* C18: over update_step and infect_cell calls between two resets the
\* achievement set only grows, and in every state each name in it is one of
\* the nine achievement names.
C18_AchievementsOnlyGrow ==
    /\ [](achievements \subseteq AchievementNames)
    /\ [][WithinRun => achievements \subseteq achievements']_vars

\* C18 witness: after two steps the set holds several names, among them
\* "Patient Zero" although no cell is Infected any more.
C18_Witness ==
    /\ last_call.op = "update_step"
    /\ step_count = 2
    /\ "Patient Zero" \in achievements
    /\ Cardinality(achievements) >= 3
    /\ ~has_infected_cells(grid)

\* C19: in every reachable state, whichever call produced it, "Pandemic" is in
\* the achievement set exactly when peak_infected is at least 80% of
\* width * height.
C19_PandemicIffPeak ==
    "Pandemic" \in achievements <=> 5 * peak_infected >= 4 * (width * height)

\* C20: in every state the history has as many entries as the step counter
\* says and its k-th entry has step = k; an update_step call on a grid with an
\* Infected cell adds 1 to the counter and appends one entry, keeping the
\* earlier ones; infect_cell and an update_step call that returns early leave
\* both alone, and apply_outbreak_pattern leaves the counter 0 and the history
\* empty.
C20_HistoryShape ==
    /\ Len(infection_history) = step_count
    /\ \A k \in 1..Len(infection_history) : infection_history[k].step = k

C20_HistoryMatchesStepCount ==
    /\ []C20_HistoryShape
    /\ [][/\ (StepCall /\ has_infected_cells(grid)) =>
                  /\ step_count' = step_count + 1
                  /\ Len(infection_history') = Len(infection_history) + 1
                  /\ SubSeq(infection_history', 1, Len(infection_history))
                         = infection_history
          /\ (StepCall /\ ~has_infected_cells(grid)) =>
                  UNCHANGED <<step_count, infection_history>>
          /\ last_call'.op = "infect_cell" => UNCHANGED <<step_count, infection_history>>
          /\ last_call'.op = "apply_outbreak_pattern" =>
                  step_count' = 0 /\ infection_history' = <<>>
         ]_vars

\* C20 witness: after two applied steps, infect_cell has infected a cell and
\* the history still has its two entries.
C20_Witness ==
    /\ last_call = ReturnedAt("infect_cell", "infected")
    /\ step_count = 2
    /\ Len(infection_history) = 2
    /\ infection_history[2].step = 2

\* C21: get_new_achievements(previous) returns exactly the names that are in
\* the achievement set and not in `previous`, whatever `previous` is, and
\* leaves the achievement set (and the rest of the simulation) as it was.
C21_NewAchievementsIsDifference ==
    [][last_call'.op = "get_new_achievements" =>
           /\ \A name \in AchievementNames :
                  name \in last_call'.returned
                      <=> (name \in achievements /\ name \notin last_call'.previous)
           /\ last_call'.returned \subseteq AchievementNames
           /\ UNCHANGED achievements
           /\ Stats' = Stats
      ]_vars

\* C21 witness: the call returned some names and held back others, with a
\* `previous` that also names an achievement the simulation does not have.
C21_Witness ==
    /\ last_call.op = "get_new_achievements"
    /\ last_call.returned # {}
    /\ last_call.previous \cap achievements # {}
    /\ last_call.previous \ achievements # {}

\* C22: on every grid, those of fewer than 5 cells included,
\* apply_outbreak_pattern("random_chaos") terminates under fair draws, that is,
\* while its loop runs some draw always brings it nearer to its exit, and when
\* it has returned exactly max(5, floor(0.005 * width * height)) cells are
\* Infected and all the others Healthy.
C22_RandomChaosTerminates ==
    /\ (pc = "random_chaos"
          /\ Cardinality(infected_positions) < RandomChaosCount(width, height)) =>
            \E x \in 0..(width - 1), y \in 0..(height - 1) : <<x, y>> \notin infected_positions
    /\ (last_call = Call("apply_outbreak_pattern", "random_chaos") /\ pc = "ready") =>
            /\ CountOf(grid, INFECTED) = RandomChaosCount(width, height)
            /\ CountOf(grid, HEALTHY) = width * height - RandomChaosCount(width, height)

\* C23 as stated: apply_outbreak_pattern("airport_spread") leaves exactly 4
\* Infected cells, at the intersections of column width div 4 or 3*width div 4
\* with row height div 4 or 3*height div 4, and every other cell Healthy.
C23_FourQuarterCells ==
    last_call = Call("apply_outbreak_pattern", "airport_spread") =>
        /\ CountOf(grid, INFECTED) = 4
        /\ \A c \in Cells :
               grid[c] = IF /\ c[1] \in {height \div 4, (3 * height) \div 4}
                            /\ c[2] \in {width \div 4, (3 * width) \div 4}
                         THEN INFECTED ELSE HEALTHY

\* The cells <<row, column>> the code's four positions name.
C23_AirportCells(w, h) ==
    {<<h \div 4, w \div 4>>, <<h \div 4, (3 * w) \div 4>>,
     <<(3 * h) \div 4, w \div 2>>, <<(3 * h) \div 4, w \div 4>>}

\* C23 (amended): apply_outbreak_pattern("airport_spread") leaves Infected
\* exactly the cells at (row h div 4, column w div 4), (row h div 4, column
\* 3w div 4), (row 3h div 4, column w div 2) and (row 3h div 4, column w div 4)
\* and every other cell Healthy; all of them are inside the grid, and they are
\* 4 distinct cells exactly when width >= 2 and height >= 2.
C23_AirportSpreadCells ==
    /\ \A w \in 1..MaxSide, h \in 1..MaxSide :
           /\ pattern_airport_spread(w, h) = C23_AirportCells(w, h)
           /\ C23_AirportCells(w, h) \subseteq CellsOf(w, h)
           /\ Cardinality(pattern_airport_spread(w, h)) = 4 <=> (w >= 2 /\ h >= 2)
    /\ last_call = Call("apply_outbreak_pattern", "airport_spread") =>
           /\ result = "None"
           /\ \A c \in Cells :
                  grid[c] = IF c \in C23_AirportCells(width, height)
                            THEN INFECTED ELSE HEALTHY

\* C23 witness: airport_spread has been applied to the grid of one column and
\* three rows, where the four positions fall on two cells.
C23_Witness ==
    /\ last_call = Call("apply_outbreak_pattern", "airport_spread")
    /\ width = 1 /\ height = 3
    /\ CountOf(grid, INFECTED) = 2
    /\ CountOf(grid, HEALTHY) = 1

\* C24: count_neighbors(state) gives, for every cell (r, c), the number of
\* positions (r+dr, c+dc), dr and dc in -1..1 and not both 0, that are inside
\* the grid and hold a cell in `state`: the cell itself is not counted, a
\* position outside the grid counts 0 and nothing wraps round an edge.
C24_Offsets == ((-1..1) \X (-1..1)) \ {<<0, 0>>}

C24_CountsMooreNeighbours ==
    last_call.op = "count_neighbors" =>
        /\ DOMAIN last_call.returned = Cells
        /\ \A c \in Cells :
               last_call.returned[c] =
                   Cardinality({o \in C24_Offsets :
                                   /\ InGrid(c[1] + o[1], c[2] + o[2])
                                   /\ grid[<<c[1] + o[1], c[2] + o[2]>>]
                                          = last_call.cell_type})

\* C24 witness: on a 3x3 grid with every cell Infected the centre has 8
\* Infected neighbours, a corner 3 and an edge cell 5.
C24_Witness ==
    /\ last_call.op = "count_neighbors"
    /\ last_call.cell_type = INFECTED
    /\ width = 3 /\ height = 3
    /\ grid[<<1, 1>>] = INFECTED
    /\ last_call.returned[<<1, 1>>] = 8
    /\ last_call.returned[<<0, 0>>] = 3
    /\ last_call.returned[<<0, 1>>] = 5

\* C25: in every reachable state the stored statistics agree with the grid:
\* total_deaths is the number of Dead cells, total_recoveries the number of
\* Immune cells, total_ever_infected the number of Infected, Immune and Dead
\* cells, which is width * height less the Healthy ones, and peak_infected is at
\* least the number of Infected cells.
C25_StatsAgreeWithGrid ==
    /\ total_deaths = CountOf(grid, DEAD)
    /\ total_recoveries = CountOf(grid, IMMUNE)
    /\ total_ever_infected
           = CountOf(grid, INFECTED) + CountOf(grid, IMMUNE) + CountOf(grid, DEAD)
    /\ total_ever_infected = width * height - CountOf(grid, HEALTHY)
    /\ peak_infected >= CountOf(grid, INFECTED)
    /\ Stats.total_deaths = Stats.dead
    /\ Stats.total_recoveries = Stats.immune

\* C25 witness: after steps and an infect_cell call the grid holds a Dead, an
\* Immune and an Infected cell, fewer Infected than at the peak.
C25_Witness ==
    /\ last_call = ReturnedAt("infect_cell", "infected")
    /\ CountOf(grid, DEAD) = 1
    /\ CountOf(grid, IMMUNE) = 1
    /\ CountOf(grid, INFECTED) = 1
    /\ peak_infected > 1

\* C26: in every reachable state a cell's trail marker is set exactly when the
\* cell is not Healthy; so update_step and infect_cell never clear a marker,
\* only reset_grid and apply_outbreak_pattern do.
C26_TrailShape == \A c \in Cells : infection_trails[c] = 1 <=> grid[c] # HEALTHY

C26_TrailIffNotHealthy ==
    /\ [](C26_TrailShape /\ \A c \in Cells : infection_trails[c] \in {0, 1})
    /\ [][WithinRun => \A c \in Cells : infection_trails[c] = 1 => infection_trails'[c] = 1]_vars

\* C26 witness: after two steps, the first of which infected a cell, a Dead
\* cell still carries its marker and a Healthy cell has none.
C26_Witness ==
    /\ last_call.op = "update_step"
    /\ step_count = 2
    /\ infection_history[1].new_infections > 0
    /\ \E c \in Cells : grid[c] = DEAD /\ infection_trails[c] = 1
    /\ \E c \in Cells : grid[c] = HEALTHY /\ infection_trails[c] = 0

\* C27: the history entry an applied step appends balances against the change
\* of the grid over that step: its infected count is the count before the step
\* plus new_infections less new_deaths less new_recoveries, new_deaths is the
\* increase of the Dead count, new_recoveries the increase of the Immune count
\* and new_infections the decrease of the Healthy count.
C27_HistoryBalances ==
    [][AppliedStep =>
           LET entry == Last(infection_history') IN
           /\ entry.infected = CountOf(grid, INFECTED) + entry.new_infections
                                   - entry.new_deaths - entry.new_recoveries
           /\ entry.infected = CountOf(grid', INFECTED)
           /\ entry.new_deaths = CountOf(grid', DEAD) - CountOf(grid, DEAD)
           /\ entry.new_recoveries = CountOf(grid', IMMUNE) - CountOf(grid, IMMUNE)
           /\ entry.new_infections = CountOf(grid, HEALTHY) - CountOf(grid', HEALTHY)
      ]_vars

\* C27 witness: one step has infected a cell, killed one and cured one, on a
\* grid that already held two Infected cells.
C27_Witness ==
    /\ last_call.op = "update_step"
    /\ step_count > 0
    /\ Last(infection_history).new_infections = 1
    /\ Last(infection_history).new_deaths = 1
    /\ Last(infection_history).new_recoveries = 1
    /\ Last(infection_history).infected = 1

\* C28: an update_step call made while no cell is Infected leaves
\* outbreak_contained true exactly when the step counter is above 0 (with no
\* applied step yet it stays false however often the call is repeated), and
\* once true it stays true over every later update_step and infect_cell, until
\* reset_grid or apply_outbreak_pattern.
C28_ContainedMark ==
    [][/\ (StepCall /\ ~has_infected_cells(grid)) =>
               /\ Stats'.outbreak_contained <=> step_count > 0
               /\ (step_count = 0 => outbreak_contained_step' = None)
               /\ UNCHANGED step_count
       /\ (WithinRun /\ Stats.outbreak_contained) =>
               /\ Stats'.outbreak_contained
               /\ UNCHANGED outbreak_contained_step
      ]_vars

\* C28 witness: the outbreak was marked contained at step 1, and the mark is
\* still there after infect_cell started a new infection and a second step ran.
C28_Witness ==
    /\ last_call.op = "update_step"
    /\ step_count = 2
    /\ outbreak_contained_step = 1
    /\ Stats.outbreak_contained

\* getStats() reports the outbreak both contained and active.
ContainedAndActive == Stats.outbreak_contained /\ Stats.outbreak_active

\* C29 as stated: in every reachable state getStats() does not report
\* outbreak_contained together with an Infected count above 0, also after
\* infect_cell is used once the outbreak has been marked contained.
C29_NeverContainedAndActive == ~(Stats.outbreak_contained /\ Stats.infected > 0)

\* C29 (amended): getStats() reports outbreak_contained together with an
\* Infected count above 0 only after infect_cell has infected a cell of an
\* outbreak already marked contained: no call other than an infect_cell that
\* returns True leads from a state where the two are not both true to one
\* where they are, update_step sets the mark only when no cell is Infected,
\* and no state after construction, reset_grid or apply_outbreak_pattern
\* reports both.
C29_OnlyInfectCellReactivates ==
    /\ ~ContainedAndActive
    /\ [][/\ (~ContainedAndActive /\ ContainedAndActive') =>
                  /\ last_call' = ReturnedAt("infect_cell", "infected")
                  /\ result' = "True"
                  /\ Stats.outbreak_contained
          /\ ~WithinRun => ~ContainedAndActive'
          /\ (StepCall /\ ~Stats.outbreak_contained /\ Stats'.outbreak_contained) =>
                  Stats'.infected = 0
         ]_vars

\* C29 witness: after the outbreak was marked contained, infect_cell has
\* infected a Healthy cell: contained and active are both reported.
C29_Witness ==
    /\ last_call = ReturnedAt("infect_cell", "infected")
    /\ Stats.outbreak_contained
    /\ Stats.outbreak_active
    /\ Stats.infected = 1

\* C30: an apply_outbreak_pattern call that fails on an unknown name leaves
\* the simulation as it was before the call: grid, trail, step counter,
\* cumulative statistics, history, achievements and outbreak_contained.
C30_FailedPatternChangesNothing ==
    [][(last_call'.op = "apply_outbreak_pattern" /\ result' = "ValueError") =>
           /\ UNCHANGED <<grid, infection_trails, step_count, peak_infected,
                          total_ever_infected, total_deaths, total_recoveries,
                          infection_history, achievements>>
           /\ Stats'.outbreak_contained = Stats.outbreak_contained
      ]_vars

\* C31 as stated: after every apply_outbreak_pattern call that returned, for
\* each of the five pattern names and every grid size, at least one cell is
\* Infected (has_infected_cells() is true).
C31_EveryPatternInfects ==
    (last_call.op = "apply_outbreak_pattern" /\ pc = "ready" /\ result = "None") =>
        has_infected_cells(grid)

\* C31 (amended): after apply_outbreak_pattern has returned for patient_zero,
\* airport_spread, border_invasion or random_chaos at least one cell is
\* Infected and the next update_step is an applied step; after urban_centers
\* any subset of the cluster cells can be Infected, the empty one included,
\* and when no cell is Infected the next update_step is a no-op.
C31_SeedingInfects ==
    /\ \A w \in 1..MaxSide, h \in 1..MaxSide :
           /\ pattern_patient_zero(w, h) \cap CellsOf(w, h) # {}
           /\ pattern_airport_spread(w, h) \cap CellsOf(w, h) # {}
           /\ pattern_border_invasion(w, h) \cap CellsOf(w, h) # {}
    /\ {} \in pattern_urban_centers(width, height)
    /\ [](/\ (/\ last_call.op = "apply_outbreak_pattern"
              /\ last_call.pattern # "urban_centers"
              /\ pc = "ready" /\ result = "None") => has_infected_cells(grid)
          /\ (last_call = Call("apply_outbreak_pattern", "urban_centers")) =>
                 /\ result = "None"
                 /\ \A c \in Cells : grid[c] \in {HEALTHY, INFECTED})
    /\ [][(/\ last_call.op = "apply_outbreak_pattern"
           /\ pc = "ready" /\ result = "None"
           /\ StepCall) =>
              IF has_infected_cells(grid)
              THEN step_count' = step_count + 1
              ELSE UNCHANGED <<grid, step_count, infection_history>>
      ]_vars

\* C31 witness: urban_centers has returned on a grid of at least five cells
\* and left no cell Infected.
C31_Witness ==
    /\ last_call = Call("apply_outbreak_pattern", "urban_centers")
    /\ result = "None"
    /\ width * height >= 5
    /\ ~has_infected_cells(grid)

\* Healthy cells at the start of a run made of update_step calls alone: the
\* Healthy cells now and the new infections the history has recorded.
C32_HealthyAtStart == CountOf(grid, HEALTHY) + SumNewInfections(infection_history)

C33_RapidSpreadIffEarly ==
    /\ []("Rapid Spread" \in achievements <=>
              \E i \in 1..Len(infection_history) :
                  /\ infection_history[i].step \in 1..10
                  /\ 4 * infection_history[i].infected >= width * height)
    /\ [][(step_count' > 10 /\ "Rapid Spread" \notin achievements) =>
              "Rapid Spread" \notin achievements'
      ]_vars

\* C33 witness: a step numbered above 10 has ended with at least 25% of the
\* cells Infected, no earlier step had, and "Rapid Spread" is not achieved.
C33_Witness ==
    /\ last_call.op = "update_step"
    /\ step_count > 10
    /\ 4 * CountOf(grid, INFECTED) >= width * height
    /\ Last(infection_history).new_infections > 0
    /\ "Rapid Spread" \notin achievements

Next ==
    \/ reset_grid
    \/ ApplyPattern
    \/ random_chaos_loop
    \/ InfectCell
    \/ UpdateStep

Spec == Init /\ [][Next]_vars

\* The same program with update_step also called with rates outside [0, 1].
NextAnyRate ==
    \/ ApplyPattern
    \/ random_chaos_loop
    \/ InfectCell
    \/ UpdateStepOutside

SpecAnyRate == Init /\ [][NextAnyRate]_vars

\* The program together with a caller that takes snapshots of the grid and
\* writes to them, on the grids of at most two cells.
InitSmall == Init /\ width * height <= 2

NextSnapshot ==
    \/ Next
    \/ get_grid_copy
    \/ WriteSnapshot

SpecSnapshot == InitSmall /\ [][NextSnapshot]_vars

\* The program together with a caller that asks for the new achievements, on
\* the grids of at most two cells.
NextQueries ==
    \/ Next
    \/ GetNewAchievements

SpecQueries == InitSmall /\ [][NextQueries]_vars

\* count_neighbors called, for each of the four states, on every grid of the
\* sizes in NeighborDims that infect_cell calls alone can produce.
NextNeighbors == CountNeighbors

SpecNeighbors == InitInfected /\ [][NextNeighbors]_vars

\* Seeding, and the first step after it, on the two grids of one line of five cells, where
\* random_chaos can collect its five positions and return.
SeedingDims == {<<5, 1>>, <<1, 5>>}

InitSeeding ==
    \E d \in SeedingDims :
        /\ width = d[1]
        /\ height = d[2]
        /\ grid = Zeros(d[1], d[2])
        /\ step_count = 0
        /\ achievements = {}
        /\ infection_trails = Zeros(d[1], d[2])
        /\ peak_infected = 0
        /\ total_ever_infected = 0
        /\ total_deaths = 0
        /\ total_recoveries = 0
        /\ infection_history = <<>>
        /\ outbreak_contained_step = None
        /\ pc = "ready"
        /\ infected_positions = {}
        /\ last_call = Call("__init__", "")
        /\ result = "None"
        /\ snapshot = NoSnapshot

\* update_step called on a simulation that has not been stepped since it was
\* constructed or seeded.
FirstStep == step_count = 0 /\ UpdateStep

NextSeeding ==
    \/ ApplyPattern
    \/ random_chaos_loop
    \/ FirstStep

SpecSeeding == InitSeeding /\ [][NextSeeding]_vars

\* A simulation brought by infect_cell calls to any set of Infected cells and
\* then stepped with death_rate = 1 only.
LethalDims == {<<1, 1>>, <<2, 1>>, <<3, 1>>, <<2, 2>>, <<3, 2>>}

InitLethal ==
    \E d \in LethalDims :
        \E seeds \in SUBSET CellsOf(d[1], d[2]) :
            LET g == AssignMask(Zeros(d[1], d[2]), seeds, INFECTED) IN
            /\ width = d[1]
            /\ height = d[2]
            /\ grid = g
            /\ step_count = 0
            /\ achievements = {}
            /\ infection_trails = AssignMask(Zeros(d[1], d[2]), seeds, 1)
            /\ peak_infected = StatsPeak(g, 0)
            /\ total_ever_infected = StatsEver(g)
            /\ total_deaths = StatsDeaths(g)
            /\ total_recoveries = StatsRecoveries(g)
            /\ infection_history = <<>>
            /\ outbreak_contained_step = None
            /\ pc = "ready"
            /\ infected_positions = {}
            /\ last_call = IF seeds = {} THEN Call("__init__", "")
                           ELSE ReturnedAt("infect_cell", "infected")
            /\ result = IF seeds = {} THEN "None" ELSE "True"
            /\ snapshot = NoSnapshot

UpdateStepLethal ==
    \E infection_rate \in Rates, immunity_rate \in Rates :
        update_step(infection_rate, One, immunity_rate)

NextLethal == UpdateStepLethal

SpecLethal == InitLethal /\ [][NextLethal]_vars

\* Long runs: patient_zero on the single cell and on the line of five cells,
\* then steps that only spread the infection, up to step LongSteps.
LongDims == {<<1, 1>>, <<5, 1>>}

InitLong ==
    \E d \in LongDims :
        /\ width = d[1]
        /\ height = d[2]
        /\ grid = Zeros(d[1], d[2])
        /\ step_count = 0
        /\ achievements = {}
        /\ infection_trails = Zeros(d[1], d[2])
        /\ peak_infected = 0
        /\ total_ever_infected = 0
        /\ total_deaths = 0
        /\ total_recoveries = 0
        /\ infection_history = <<>>
        /\ outbreak_contained_step = None
        /\ pc = "ready"
        /\ infected_positions = {}
        /\ last_call = Call("__init__", "")
        /\ result = "None"
        /\ snapshot = NoSnapshot

NextLong ==
    \/ apply_outbreak_pattern("patient_zero")
    \/ reset_grid
    \/ UpdateStepSpreading

SpecLong == InitLong /\ [][NextLong]_vars
=============================================================================
